---------------------------- MODULE Spec2Model ----------------------------
(***************************************************************************)
(* A model of src/src/vad.py: the timestamp operations of                  *)
(* AbstractTranscription, the transcribe() loop that drives them, and the  *)
(* periodic and the Silero detector.                                       *)
(*                                                                         *)
(* Times are integers counted in ticks of half a second, the largest unit  *)
(* in which every constant of the source is a whole number                 *)
(* (MIN_FORCE_MERGE_GAP = 0.5 s = 1 tick, MIN_SEGMENT_DURATION = 1 s =     *)
(* 2 ticks).  The operations only add, subtract and compare times, so      *)
(* they are indifferent to the unit; the worked examples of the            *)
(* documentation are evaluated in the unit that makes them whole.          *)
(*                                                                         *)
(* A Python dict is a TLA+ function from field names to values: a missing  *)
(* key is a missing element of the DOMAIN.  An optional float is None      *)
(* (the empty tuple) or Some(v) (the one-element tuple).                   *)
(***************************************************************************)
EXTENDS Integers, Sequences, FiniteSets, TLC

VARIABLES
    pc,              \* where transcribe() is: "start", "detected", "padded",
                     \* "merged", "loop", "done" ("algebra": not in transcribe)
    cfg,             \* the fields __init__ sets on self
    seconds_timestamps, \* what get_transcribe_timestamps returned
    timestamps,      \* padded, then merged
    idx,             \* position of the for loop over merged (1-based)
    result,          \* result = { text, segments, language }
    languageCounter, \* Counter(): <<key, count>> pairs in insertion order
    prompt_window,   \* deque of transcribed segments
    calls,           \* history: every invocation of whisperCallable
    last,            \* history: the interval and the segments of the last invocation
    fn,              \* a direct call of one timestamp operation: its name,
    args,            \*   its arguments,
    input,           \*   the list passed in, as it was before the call,
    output,          \*   the list returned,
    input_after,     \*   the list passed in, as it is after the call,
    raised           \*   the exception the call raised ("": it returned)

vars == <<pc, cfg, seconds_timestamps, timestamps, idx, result, languageCounter, prompt_window,
          calls, last, fn, args, input, output, input_after, raised>>

transcribeVars == <<pc, cfg, seconds_timestamps, timestamps, idx, result, languageCounter,
                    prompt_window, calls, last>>

callVars == <<fn, args, input, output, input_after, raised>>

-----------------------------------------------------------------------------
(* Bounds of the model *)

\* Times of detector output are drawn from 0..MaxTime (ticks).
MaxTime == 4

\* A list passed to a timestamp operation has at most MaxLen intervals.
MaxLen == 3

\* In transcribe() the detector returns at most MaxDetected intervals
MaxDetected == 1

\* and whisperCallable at most MaxSegments segments over all its invocations.
MaxSegments == 2

-----------------------------------------------------------------------------
(* Constants of the source, in ticks of half a second *)

MIN_SEGMENT_DURATION == 2

MIN_FORCE_MERGE_GAP == 1

\* max_merge_size * FORCE_MERGE_SEGMENT_MULTIPLIER (1.5), for sizes that are a
\* whole number of seconds (an even number of ticks)
ForceMergeSize(max_merge_size) == (3 * max_merge_size) \div 2

-----------------------------------------------------------------------------
(* Python values *)

None == <<>>

Some(v) == <<v>>

Val(o) == o[1]

\* dict.get(key, default)
Get(d, key, default) == IF key \in DOMAIN d THEN d[key] ELSE default

\* d.copy() followed by d[key] = value
Put(d, key, value) == [k \in DOMAIN d \cup {key} |-> IF k = key THEN value ELSE d[k]]

Min(a, b) == IF a <= b THEN a ELSE b

Max(a, b) == IF a >= b THEN a ELSE b

Interval(s, e) == [start |-> s, end |-> e]

Gap(s, e) == [start |-> s, end |-> e, gap |-> TRUE]

-----------------------------------------------------------------------------
(* pad_timestamps *)

\* ClampToNext without the clamp: the padded end may cross the next entry
ClampToNextMissing(ts, i, padded_end) == padded_end

\* "Do not pad past the next segment"
ClampToNext(ts, i, padded_end) ==
    IF i < Len(ts) THEN Min(ts[i + 1].start, padded_end) ELSE padded_end

RECURSIVE PadLoop(_, _, _, _, _)
\* the for loop of pad_timestamps from index i on, result being the entries
\* built so far (prev_entry is the last of them)
PadLoop(ts, padding_left, padding_right, i, res) ==
    IF i > Len(ts) THEN res
    ELSE
      LET curr_entry == ts[i]
          start0 == curr_entry.start
          end0 == curr_entry.end
          segment_start ==
              IF padding_left # None
              THEN Max(IF res # <<>> THEN res[Len(res)].end ELSE 0,
                       start0 - Val(padding_left))
              ELSE start0
          padded_end == end0 + Val(padding_right)
          segment_end ==
              IF padding_right # None
              THEN ClampToNext(ts, i, padded_end)
              ELSE end0
      IN PadLoop(ts, padding_left, padding_right, i + 1,
                 Append(res, Interval(segment_start, segment_end)))

pad_timestamps(ts, padding_left, padding_right) ==
    IF padding_left = Some(0) /\ padding_right = Some(0) THEN ts
    ELSE PadLoop(ts, padding_left, padding_right, 1, <<>>)

-----------------------------------------------------------------------------
(* merge_timestamps *)

\* ShouldMerge whose force branch tests max_merge_size, not max_force_merge_size
ShouldMergeForceBySize(current_entry, entry, max_merge_gap, max_merge_size, min_force_merge_gap, max_force_merge_size) ==
    LET distance == entry.start - current_entry.end
        current_entry_size == current_entry.end - current_entry.start
    IN \/ /\ distance <= Val(max_merge_gap)
          /\ (max_merge_size = None \/ current_entry_size <= Val(max_merge_size))
       \/ /\ min_force_merge_gap # None
          /\ distance <= Val(min_force_merge_gap)
          /\ (max_merge_size = None \/ current_entry_size <= Val(max_merge_size))

\* the condition under which the loop absorbs entry into current_entry
ShouldMerge(current_entry, entry, max_merge_gap, max_merge_size, min_force_merge_gap, max_force_merge_size) ==
    LET distance == entry.start - current_entry.end
        current_entry_size == current_entry.end - current_entry.start
    IN \/ /\ distance <= Val(max_merge_gap)
          /\ (max_merge_size = None \/ current_entry_size <= Val(max_merge_size))
       \/ /\ min_force_merge_gap # None
          /\ distance <= Val(min_force_merge_gap)
          /\ (max_force_merge_size = None
              \/ current_entry_size <= Val(max_force_merge_size))

\* FinalFlush that forgets the entry still held in current_entry
FinalFlushMissing(res, current) == res

\* "Add final entry"
FinalFlush(res, current) == res \o current

RECURSIVE MergeLoop(_, _, _, _, _, _, _, _)
\* the for loop of merge_timestamps from index i on; current is <<>> for
\* current_entry = None and <<entry>> otherwise
MergeLoop(ts, g, s, fg, fs, i, current, res) ==
    IF i > Len(ts) THEN FinalFlush(res, current)
    ELSE IF current = <<>>
         THEN MergeLoop(ts, g, s, fg, fs, i + 1, <<ts[i]>>, res)
    ELSE IF ShouldMerge(current[1], ts[i], g, s, fg, fs)
         THEN MergeLoop(ts, g, s, fg, fs, i + 1,
                        <<Put(current[1], "end", ts[i].end)>>, res)
    ELSE MergeLoop(ts, g, s, fg, fs, i + 1, <<ts[i]>>, res \o current)

merge_timestamps(ts, max_merge_gap, max_merge_size, min_force_merge_gap, max_force_merge_size) ==
    IF max_merge_gap = None THEN ts
    ELSE MergeLoop(ts, max_merge_gap, max_merge_size, min_force_merge_gap,
                   max_force_merge_size, 1, <<>>, <<>>)

RECURSIVE MergeInputLoop(_, _, _, _, _, _, _)
\* what the for loop of merge_timestamps leaves in the list it iterates:
\* current_entry is the entry ts[cur] itself, not a copy (cur = 0 for None),
\* and "current_entry['end'] = entry['end']" assigns to it
MergeInputLoop(ts, g, s, fg, fs, i, cur) ==
    IF i > Len(ts) THEN ts
    ELSE IF cur = 0
         THEN MergeInputLoop(ts, g, s, fg, fs, i + 1, i)
    ELSE IF ShouldMerge(ts[cur], ts[i], g, s, fg, fs)
         THEN MergeInputLoop([ts EXCEPT ![cur] = Put(ts[cur], "end", ts[i].end)],
                             g, s, fg, fs, i + 1, cur)
    ELSE MergeInputLoop(ts, g, s, fg, fs, i + 1, i)

\* the list passed to merge_timestamps, after the call
MergedInput(ts, max_merge_gap, max_merge_size, min_force_merge_gap, max_force_merge_size) ==
    IF max_merge_gap = None THEN ts
    ELSE MergeInputLoop(ts, max_merge_gap, max_merge_size, min_force_merge_gap,
                        max_force_merge_size, 1, 0)

-----------------------------------------------------------------------------
(* expand_gaps and fill_gaps *)

\* LeadingGap that never adds the gap
LeadingGapMissing(segments) == <<>>

\* "Add gap at the beginning if needed"
LeadingGap(segments) ==
    IF segments[1].start > 0 THEN <<Gap(0, segments[1].start)>> ELSE <<>>

RECURSIVE ExpandLoop(_, _, _)
ExpandLoop(segments, i, res) ==
    IF i > Len(segments) - 1 THEN res
    ELSE
      LET current_segment == segments[i]
          next_segment == segments[i + 1]
          delta == next_segment.start - current_segment.end
          expanded ==
              IF delta >= 0
              THEN Put(Put(current_segment, "expand_amount", delta),
                       "end", next_segment.start)
              ELSE current_segment
      IN ExpandLoop(segments, i + 1, Append(res, expanded))

expand_gaps(segments, total_duration) ==
    IF Len(segments) = 0 THEN <<>>
    ELSE
      LET res == Append(ExpandLoop(segments, 1, LeadingGap(segments)),
                        segments[Len(segments)])
          last_segment == res[Len(res)]
      IN IF total_duration # None /\ last_segment.end < Val(total_duration)
         THEN [res EXCEPT ![Len(res)] = Put(last_segment, "end", Val(total_duration))]
         ELSE res

RECURSIVE FillLoop(_, _, _, _)
FillLoop(segments, max_expand_size, i, res) ==
    IF i > Len(segments) - 1 THEN res
    ELSE
      LET seg == segments[i]
          next_segment == segments[i + 1]
          delta == next_segment.start - seg.end
          expanded == max_expand_size # None /\ delta <= Val(max_expand_size)
          current_segment ==
              IF expanded
              THEN Put(Put(seg, "expand_amount", delta), "end", next_segment.start)
              ELSE seg
          gap == IF delta >= 0 /\ ~expanded
                 THEN <<Gap(current_segment.end, next_segment.start)>>
                 ELSE <<>>
      IN FillLoop(segments, max_expand_size, i + 1,
                  Append(res, current_segment) \o gap)

\* fill_gaps below its test for an empty list
FillNonEmpty(segments, total_duration, max_expand_size) ==
      LET res == Append(FillLoop(segments, max_expand_size, 1, LeadingGap(segments)),
                        segments[Len(segments)])
          last_segment == res[Len(res)]
          delta == Val(total_duration) - last_segment.end
      IN IF total_duration # None /\ delta > 0
         THEN IF max_expand_size # None /\ delta <= Val(max_expand_size)
              THEN [res EXCEPT ![Len(res)] =
                       Put(Put(last_segment, "expand_amount", delta),
                           "end", Val(total_duration))]
              ELSE Append(res, Gap(last_segment.end, Val(total_duration)))
         ELSE res

\* fill_gaps that turns an audio without speech into one gap
fill_gaps_of_silence(segments, total_duration, max_expand_size) ==
    IF Len(segments) = 0
    THEN (IF total_duration # None /\ Val(total_duration) > 0
          THEN <<Gap(0, Val(total_duration))>> ELSE <<>>)
    ELSE FillNonEmpty(segments, total_duration, max_expand_size)

fill_gaps(segments, total_duration, max_expand_size) ==
    IF Len(segments) = 0 THEN <<>>
    ELSE FillNonEmpty(segments, total_duration, max_expand_size)

-----------------------------------------------------------------------------
(* include_gaps *)

RECURSIVE IncludeLoop(_, _, _, _, _)
\* the for loop of include_gaps from index i on: the entries built and the
\* value of last_end_time when it ends
IncludeLoop(segments, min_gap_length, i, last_end_time, res) ==
    IF i > Len(segments) THEN [result |-> res, last_end_time |-> last_end_time]
    ELSE
      LET segment == segments[i]
          segment_start == segment.start
          segment_end == segment.end
          delta == segment_start - last_end_time
          gap == IF /\ last_end_time # segment_start
                    /\ (min_gap_length = None \/ delta >= Val(min_gap_length))
                 THEN <<Gap(last_end_time, segment_start)>>
                 ELSE <<>>
      IN IncludeLoop(segments, min_gap_length, i + 1, segment_end,
                     Append(res \o gap, segment))

\* the test below the loop has passed: "delta = total_duration - segment_start"
\* is evaluated
ReadsSegmentStart(segments, total_duration) ==
    /\ total_duration # None
    /\ IncludeLoop(segments, None, 1, 0, <<>>).last_end_time < Val(total_duration)

\* segment_start is assigned only in the body of the loop: after a loop over
\* an empty list it is an unbound local
IncludeGapsRaises(segments, total_duration) ==
    Len(segments) = 0 /\ ReadsSegmentStart(segments, total_duration)

\* include_gaps where it returns
include_gaps(segments, min_gap_length, total_duration) ==
    LET loop == IncludeLoop(segments, min_gap_length, 1, 0, <<>>)
        delta == Val(total_duration) - segments[Len(segments)].start
    IN IF /\ ReadsSegmentStart(segments, total_duration)
          /\ (min_gap_length = None \/ delta >= Val(min_gap_length))
       THEN Append(loop.result, Gap(loop.last_end_time, Val(total_duration)))
       ELSE loop.result

-----------------------------------------------------------------------------
(* adjust_timestamp *)

\* new_segment is assigned only under "if (max_source_time is not None)":
\* without max_source_time the first iteration reads an unbound local
AdjustRaises(segments, max_source_time) ==
    max_source_time = None /\ Len(segments) > 0

\* adjust_timestamp where it returns

RECURSIVE AdjustLoop(_, _, _, _, _)
AdjustLoop(segments, adjust_seconds, max_source_time, i, res) ==
    IF i > Len(segments) THEN res
    ELSE
      LET segment == segments[i]
          segment_start == segment.start
          segment_end == Min(Val(max_source_time), segment.end)
          new_segment == Put(Put(segment, "start", segment_start + adjust_seconds),
                             "end", segment_end + adjust_seconds)
      IN IF segment_start > Val(max_source_time)
         THEN AdjustLoop(segments, adjust_seconds, max_source_time, i + 1, res)
         ELSE AdjustLoop(segments, adjust_seconds, max_source_time, i + 1,
                         Append(res, new_segment))

\* adjust_timestamp that leaves the times local to the buffer
adjust_timestamp_local(segments, adjust_seconds, max_source_time) ==
    AdjustLoop(segments, 0, max_source_time, 1, <<>>)

adjust_timestamp(segments, adjust_seconds, max_source_time) ==
    AdjustLoop(segments, adjust_seconds, max_source_time, 1, <<>>)

-----------------------------------------------------------------------------
(* multiply_timestamps *)

\* x * factor for a factor num/den; the model multiplies only where the
\* product is a whole number
Multiply(x, factor) == (x * factor.num) \div factor.den

multiply_timestamps(ts, factor) ==
    [i \in 1..Len(ts) |-> Interval(Multiply(ts[i].start, factor),
                                   Multiply(ts[i].end, factor))]

-----------------------------------------------------------------------------
(* The body of the loop of transcribe() *)

\* the value compared with, and subtracted from, a rebased segment's end
SegmentWithoutExpansion(segment_start, segment_duration, segment_expand_amount) ==
    segment_duration - segment_expand_amount

\* "Propagate expand amount to the segments"
PropagateExpand(adjusted_segments, segment_start, segment_duration, segment_expand_amount) ==
    IF segment_expand_amount > 0
    THEN LET segment_without_expansion ==
                 SegmentWithoutExpansion(segment_start, segment_duration,
                                         segment_expand_amount)
         IN [i \in 1..Len(adjusted_segments) |->
                IF adjusted_segments[i].end > segment_without_expansion
                THEN Put(adjusted_segments[i], "expand_amount",
                         adjusted_segments[i].end - segment_without_expansion)
                ELSE adjusted_segments[i]]
    ELSE adjusted_segments

\* tenths: PROMPT_NO_SPEECH_PROB = 0.1
PROMPT_NO_SPEECH_PROB == 1

RECURSIVE PopExpired(_, _, _)
\* the while loop of __update_prompt_window
PopExpired(window, segment_end, max_prompt_window) ==
    IF Len(window) = 0 THEN window
    ELSE
      LET first_end_time == Get(window[1], "end", 0)
          first_expand_time == Get(window[1], "expand_amount", 0)
      IN IF first_end_time - first_expand_time < segment_end - max_prompt_window
         THEN PopExpired(Tail(window), segment_end, max_prompt_window)
         ELSE window

update_prompt_window(window, adjusted_segments, segment_end, max_prompt_window) ==
    IF max_prompt_window # None /\ Val(max_prompt_window) > 0
    THEN PopExpired(
             window \o SelectSeq(adjusted_segments,
                                 LAMBDA seg : Get(seg, "no_speech_prob", 0) <= PROMPT_NO_SPEECH_PROB),
             segment_end, Val(max_prompt_window))
    ELSE window

\* languageCounter[key] += 1: a new key goes last
Increment(counter, key) ==
    IF \E i \in 1..Len(counter) : counter[i][1] = key
    THEN [i \in 1..Len(counter) |->
             IF counter[i][1] = key THEN <<key, counter[i][2] + 1>> ELSE counter[i]]
    ELSE Append(counter, <<key, 1>>)

\* most_common that keeps the last of the largest
most_common_last(counter) ==
    LET i == CHOOSE i \in 1..Len(counter) :
                 /\ \A j \in 1..Len(counter) : counter[j][2] <= counter[i][2]
                 /\ \A j \in (i + 1)..Len(counter) : counter[j][2] < counter[i][2]
    IN counter[i][1]

\* Counter.most_common(1)[0][0]: max() over the items in insertion order keeps
\* the first of the largest
most_common(counter) ==
    LET i == CHOOSE i \in 1..Len(counter) :
                 /\ \A j \in 1..Len(counter) : counter[j][2] <= counter[i][2]
                 /\ \A j \in 1..(i - 1) : counter[j][2] < counter[i][2]
    IN counter[i][1]

-----------------------------------------------------------------------------
(* Inputs *)

Times == 0..MaxTime

Intervals == {x \in [start : Times, end : Times] : x.start <= x.end}

\* sorted by start and non-overlapping, each entry with 0 <= start <= end
WellFormed(ts) ==
    /\ \A i \in 1..Len(ts) : 0 <= ts[i].start /\ ts[i].start <= ts[i].end
    /\ \A i \in 1..(Len(ts) - 1) : ts[i].end <= ts[i + 1].start

WellFormedLists ==
    UNION {{ts \in [1..n -> Intervals] : WellFormed(ts)} : n \in 0..MaxLen}

\* a padding, a gap or a size: unset, or a number of ticks
Paddings == {None, Some(0), Some(1), Some(3)}

MergeGaps == {None, Some(0), Some(2)}

MergeSizes == {None, Some(2), Some(4)}

ForceGaps == {None, Some(MIN_FORCE_MERGE_GAP)}

ForceSizes == {None, Some(1), Some(3)}

NormalizePaddings == {None, Some(0), Some(2)}

NormalizeSizes == {None, Some(2)}

PromptWindows == {None, Some(0), Some(2)}

Durations == {None} \cup {Some(d) : d \in 0..(MaxTime + 1)}

MinGaps == {None, Some(2)}

Offsets == 0..2

SourceTimes == {None, Some(1), Some(MaxTime - 1)}

Factors == {[num |-> 1, den |-> 1], [num |-> 2, den |-> 1]}

-----------------------------------------------------------------------------
(* Direct calls of the timestamp operations on a well-formed list *)

NoCall == [name |-> "none"]

InitCalls ==
    /\ fn = "none"
    /\ args = NoCall
    /\ input \in WellFormedLists
    /\ output = <<>>
    /\ input_after = input
    /\ raised = ""

InitIdle ==
    /\ pc = "algebra"
    /\ cfg = NoCall
    /\ seconds_timestamps = <<>>
    /\ timestamps = <<>>
    /\ idx = 0
    /\ result = [text |-> <<>>, segments |-> <<>>, language |-> ""]
    /\ languageCounter = <<>>
    /\ prompt_window = <<>>
    /\ calls = <<>>
    /\ last = <<>>

InitAlgebra == InitIdle /\ InitCalls

CallPad ==
    /\ fn = "none"
    /\ \E padding_left \in Paddings, padding_right \in Paddings :
          /\ args' = [padding_left |-> padding_left, padding_right |-> padding_right]
          /\ output' = pad_timestamps(input, padding_left, padding_right)
    /\ fn' = "pad_timestamps"
    /\ UNCHANGED <<input, input_after, raised, transcribeVars>>

CallMerge ==
    /\ fn = "none"
    /\ \E g \in MergeGaps, s \in MergeSizes, fg \in ForceGaps, fs \in ForceSizes :
          /\ args' = [max_merge_gap |-> g, max_merge_size |-> s,
                      min_force_merge_gap |-> fg, max_force_merge_size |-> fs]
          /\ output' = merge_timestamps(input, g, s, fg, fs)
          /\ input_after' = MergedInput(input, g, s, fg, fs)
    /\ fn' = "merge_timestamps"
    /\ UNCHANGED <<input, raised, transcribeVars>>

\* merge_timestamps applied to its own result, with the same parameters; the
\* entries of that result are entries of the list first passed in, which this
\* call leaves as they are where it absorbs nothing
CallMergeAgain ==
    /\ fn = "merge_timestamps"
    /\ args' = Put(args, "first_result", output)
    /\ output' = merge_timestamps(output, args.max_merge_gap, args.max_merge_size,
                                  args.min_force_merge_gap, args.max_force_merge_size)
    /\ fn' = "merge_timestamps again"
    /\ UNCHANGED <<input, input_after, raised, transcribeVars>>

CallExpand ==
    /\ fn = "none"
    /\ \E total_duration \in Durations :
          /\ args' = [total_duration |-> total_duration]
          /\ output' = expand_gaps(input, total_duration)
    /\ fn' = "expand_gaps"
    /\ UNCHANGED <<input, input_after, raised, transcribeVars>>

CallFill ==
    /\ fn = "none"
    /\ \E total_duration \in Durations, max_expand_size \in MergeSizes :
          /\ args' = [total_duration |-> total_duration, max_expand_size |-> max_expand_size]
          /\ output' = fill_gaps(input, total_duration, max_expand_size)
    /\ fn' = "fill_gaps"
    /\ UNCHANGED <<input, input_after, raised, transcribeVars>>

CallInclude ==
    /\ fn = "none"
    /\ \E min_gap_length \in MinGaps, total_duration \in Durations :
          /\ args' = [min_gap_length |-> min_gap_length, total_duration |-> total_duration]
          /\ IF IncludeGapsRaises(input, total_duration)
             THEN raised' = "UnboundLocalError" /\ output' = output
             ELSE raised' = "" /\ output' = include_gaps(input, min_gap_length, total_duration)
    /\ fn' = "include_gaps"
    /\ UNCHANGED <<input, input_after, transcribeVars>>

CallAdjust ==
    /\ fn = "none"
    /\ \E adjust_seconds \in Offsets, max_source_time \in SourceTimes :
          /\ args' = [adjust_seconds |-> adjust_seconds, max_source_time |-> max_source_time]
          /\ IF AdjustRaises(input, max_source_time)
             THEN raised' = "UnboundLocalError" /\ output' = output
             ELSE raised' = "" /\ output' = adjust_timestamp(input, adjust_seconds, max_source_time)
    /\ fn' = "adjust_timestamp"
    /\ UNCHANGED <<input, input_after, transcribeVars>>

\* adjust_timestamp applied to its own result, with another offset
CallAdjustAgain ==
    /\ fn = "adjust_timestamp"
    /\ raised = ""
    /\ \E adjust_seconds \in Offsets :
          /\ args' = Put(args, "second_adjust_seconds", adjust_seconds)
          /\ IF AdjustRaises(output, args.max_source_time)
             THEN raised' = "UnboundLocalError" /\ output' = output
             ELSE raised' = "" /\ output' = adjust_timestamp(output, adjust_seconds, args.max_source_time)
    /\ fn' = "adjust_timestamp again"
    /\ UNCHANGED <<input, input_after, transcribeVars>>

CallMultiply ==
    /\ fn = "none"
    /\ \E factor \in Factors :
          /\ args' = [factor |-> factor]
          /\ output' = multiply_timestamps(input, factor)
    /\ fn' = "multiply_timestamps"
    /\ UNCHANGED <<input, input_after, raised, transcribeVars>>

NextAlgebra ==
    \/ CallPad \/ CallMerge \/ CallMergeAgain \/ CallExpand \/ CallFill
    \/ CallInclude \/ CallAdjust \/ CallAdjustAgain \/ CallMultiply

SpecAlgebra == InitAlgebra /\ [][NextAlgebra]_vars

-----------------------------------------------------------------------------
(* transcribe() *)

Strategies == {"SKIP", "CREATE_SEGMENT", "EXPAND_SEGMENT"}

\* self after __init__
Config(pl, pr, silent, size, strategy, window) ==
    [segment_padding_left |-> pl,
     segment_padding_right |-> pr,
     max_silent_period |-> silent,
     max_merge_size |-> size,
     non_speech_strategy |-> strategy,
     max_prompt_window |-> window,
     min_force_merge_gap |-> Some(MIN_FORCE_MERGE_GAP),
     max_force_merge_size |-> IF size # None THEN Some(ForceMergeSize(Val(size))) ELSE None]

InitTranscribe ==
    /\ pc = "start"
    /\ seconds_timestamps = <<>>
    /\ timestamps = <<>>
    /\ idx = 0
    /\ result = [text |-> <<>>, segments |-> <<>>, language |-> ""]
    /\ languageCounter = <<>>
    /\ prompt_window = <<>>
    /\ calls = <<>>
    /\ last = <<>>
    /\ fn = "none"
    /\ args = NoCall
    /\ input = <<>>
    /\ output = <<>>
    /\ input_after = <<>>
    /\ raised = ""

\* the detector's answer: a well-formed list of at most MaxDetected intervals
\* of speech, none of them empty
DetectorOutputs ==
    {ts \in WellFormedLists :
        Len(ts) <= MaxDetected /\ \A i \in 1..Len(ts) : ts[i].start < ts[i].end}

\* get_audio_duration(audio)
AudioDurations == 0..(MaxTime + 2)

\* seconds_timestamps = self.get_transcribe_timestamps(audio)
GetTranscribeTimestamps ==
    /\ pc = "start"
    /\ seconds_timestamps' \in DetectorOutputs
    /\ pc' = "detected"
    /\ UNCHANGED <<cfg, timestamps, idx, result, languageCounter, prompt_window, calls, last, callVars>>

\* padded = self.pad_timestamps(...)
PadTimestamps ==
    /\ pc = "detected"
    /\ timestamps' = pad_timestamps(seconds_timestamps, cfg.segment_padding_left,
                                    cfg.segment_padding_right)
    /\ pc' = "padded"
    /\ UNCHANGED <<cfg, seconds_timestamps, idx, result, languageCounter, prompt_window, calls, last, callVars>>

\* merged = self.merge_timestamps(...)
MergeTimestamps ==
    /\ pc = "padded"
    /\ timestamps' = merge_timestamps(timestamps, cfg.max_silent_period, cfg.max_merge_size,
                                      cfg.min_force_merge_gap, cfg.max_force_merge_size)
    /\ pc' = "merged"
    /\ UNCHANGED <<cfg, seconds_timestamps, idx, result, languageCounter, prompt_window, calls, last, callVars>>

\* non_speech_strategy == SKIP: merged is left as it is
KeepMerged ==
    /\ pc = "merged"
    /\ cfg.non_speech_strategy = "SKIP"
    /\ pc' = "loop"
    /\ idx' = 1
    /\ UNCHANGED <<cfg, seconds_timestamps, timestamps, result, languageCounter, prompt_window, calls, last, callVars>>

\* non_speech_strategy == CREATE_SEGMENT
FillGaps ==
    /\ pc = "merged"
    /\ cfg.non_speech_strategy = "CREATE_SEGMENT"
    /\ \E max_audio_duration \in AudioDurations :
          timestamps' = fill_gaps(timestamps, Some(max_audio_duration), cfg.max_merge_size)
    /\ pc' = "loop"
    /\ idx' = 1
    /\ UNCHANGED <<cfg, seconds_timestamps, result, languageCounter, prompt_window, calls, last, callVars>>

\* non_speech_strategy == EXPAND_SEGMENT
ExpandGaps ==
    /\ pc = "merged"
    /\ cfg.non_speech_strategy = "EXPAND_SEGMENT"
    /\ \E max_audio_duration \in AudioDurations :
          timestamps' = expand_gaps(timestamps, Some(max_audio_duration))
    /\ pc' = "loop"
    /\ idx' = 1
    /\ UNCHANGED <<cfg, seconds_timestamps, result, languageCounter, prompt_window, calls, last, callVars>>

Languages == {"en", "fr"}

\* the segments whisperCallable returns for a buffer of segment_duration
\* ticks in its k-th invocation: at most room of them, the first from the
\* start of the buffer, each next one from the end of the one before, none
\* past the end of the buffer; the text of a segment names the invocation
\* and the segment's place
WhisperSegments(segment_duration, k, room) ==
    LET Ends == UNION {{e \in [1..n -> 0..segment_duration] :
                          \A i \in 1..(n - 1) : e[i] <= e[i + 1]} : n \in 0..room}
    IN {[i \in 1..Len(e) |->
            [start |-> IF i = 1 THEN 0 ELSE e[i - 1], end |-> e[i], text |-> <<k, i>>]] :
        e \in Ends}

\* the times a transcriber puts segment borders at, in a buffer of
\* segment_duration ticks: its ends and the ticks next to them
BorderTimes(segment_duration) ==
    {t \in {0, 1, segment_duration - 1, segment_duration} : 0 <= t /\ t <= segment_duration}

\* the segments a transcriber returns that only keeps them sorted by start,
\* each with 0 <= start <= end <= segment_duration
SortedSegments(segment_duration, k, room) ==
    LET Borders == {b \in [start : BorderTimes(segment_duration), end : BorderTimes(segment_duration)] : b.start <= b.end}
        Lists == UNION {{l \in [1..n -> Borders] :
                            \A i \in 1..(n - 1) : l[i].start <= l[i + 1].start} : n \in 0..room}
    IN {[i \in 1..Len(l) |-> [start |-> l[i].start, end |-> l[i].end, text |-> <<k, i>>]] :
        l \in Lists}

\* TooShort that lets through everything but an empty interval
TooShortOnlyEmpty(segment_duration) == segment_duration <= 0

\* if segment_duration < MIN_SEGMENT_DURATION: continue
TooShort(segment_duration) == segment_duration < MIN_SEGMENT_DURATION

\* one iteration of the loop over an interval shorter than MIN_SEGMENT_DURATION
SkipShortSegment ==
    /\ pc = "loop"
    /\ idx <= Len(timestamps)
    /\ TooShort(timestamps[idx].end - timestamps[idx].start)
    /\ idx' = idx + 1
    /\ UNCHANGED <<pc, cfg, seconds_timestamps, timestamps, result, languageCounter, prompt_window, calls, last, callVars>>

\* segment_prompt that joins the texts of an empty window too
SegmentPromptOfEmpty(window) == Some([i \in 1..Len(window) |-> window[i].text])

\* ' '.join([segment['text'] for segment in prompt_window]) if
\* len(prompt_window) > 0 else None: the texts in the order of the window
SegmentPrompt(window) ==
    IF Len(window) > 0 THEN Some([i \in 1..Len(window) |-> window[i].text]) ELSE None

\* the iteration of the loop over timestamps[idx] from the invocation of
\* whisperCallable on, which returns segments and language
Transcribed(language, segments) ==
    LET segment == timestamps[idx]
        segment_start == segment.start
        segment_end == segment.end
        segment_expand_amount == Get(segment, "expand_amount", 0)
        segment_duration == segment_end - segment_start
        segment_prompt == SegmentPrompt(prompt_window)
        k == Len(calls) + 1
        adjusted_segments ==
            PropagateExpand(
                adjust_timestamp(segments, segment_start, Some(segment_duration)),
                segment_start, segment_duration, segment_expand_amount)
        window == update_prompt_window(prompt_window, adjusted_segments,
                                       segment_end, cfg.max_prompt_window)
    IN /\ calls' = Append(calls, [start |-> segment_start,
                                  duration |-> segment_duration,
                                  prompt |-> segment_prompt,
                                  language |-> language,
                                  window |-> window])
       /\ result' = [result EXCEPT !.text = @ \o <<k>>,
                                   !.segments = @ \o adjusted_segments]
       /\ languageCounter' = Increment(languageCounter, language)
       /\ prompt_window' = window
       /\ last' = <<[segment |-> segment, segments |-> adjusted_segments]>>
       /\ idx' = idx + 1
       /\ UNCHANGED <<pc, cfg, seconds_timestamps, timestamps, callVars>>

\* one iteration of the loop that runs whisperCallable
RunWhisper ==
    /\ pc = "loop"
    /\ idx <= Len(timestamps)
    /\ LET segment_duration == timestamps[idx].end - timestamps[idx].start
       IN /\ ~TooShort(segment_duration)
          /\ \E language \in Languages, segments \in WhisperSegments(segment_duration, Len(calls) + 1, MaxSegments - Len(result.segments)) :
                Transcribed(language, segments)

\* the same iteration with a transcriber that may return segments that
\* overlap or leave holes
RunWhisperSorted ==
    /\ pc = "loop"
    /\ idx <= Len(timestamps)
    /\ LET segment_duration == timestamps[idx].end - timestamps[idx].start
       IN /\ ~TooShort(segment_duration)
          /\ \E language \in Languages, segments \in SortedSegments(segment_duration, Len(calls) + 1, MaxSegments - Len(result.segments)) :
                Transcribed(language, segments)

\* after the loop: the language with the most votes, and return
ReturnResult ==
    /\ pc = "loop"
    /\ idx > Len(timestamps)
    /\ result' = IF Len(languageCounter) > 0
                 THEN [result EXCEPT !.language = most_common(languageCounter)]
                 ELSE result
    /\ pc' = "done"
    /\ UNCHANGED <<cfg, seconds_timestamps, timestamps, idx, languageCounter, prompt_window, calls, last, callVars>>

\* lines 113-136: from the detector's answer to the list the loop iterates
Normalize == PadTimestamps \/ MergeTimestamps \/ KeepMerged \/ FillGaps \/ ExpandGaps

\* transcribe() with any well-formed list as the detector's answer
InitNormalize ==
    /\ pc = "detected"
    /\ seconds_timestamps \in WellFormedLists
    /\ timestamps = <<>>
    /\ idx = 0
    /\ result = [text |-> <<>>, segments |-> <<>>, language |-> ""]
    /\ languageCounter = <<>>
    /\ prompt_window = <<>>
    /\ calls = <<>>
    /\ last = <<>>
    /\ fn = "none"
    /\ args = NoCall
    /\ input = <<>>
    /\ output = <<>>
    /\ input_after = <<>>
    /\ raised = ""
    /\ cfg \in {Config(pl, pr, silent, size, strategy, None) :
                   pl \in NormalizePaddings, pr \in NormalizePaddings, silent \in MergeGaps,
                   size \in NormalizeSizes, strategy \in Strategies}

SpecNormalize == InitNormalize /\ [][Normalize]_vars

\* transcribe() without padding and merging (the defaults of __init__), with
\* every strategy, with max_merge_size unset or, where the strategy reads it,
\* set, and with the prompt window off or on
Init ==
    /\ InitTranscribe
    /\ cfg \in {Config(None, None, None, size, strategy, window) :
                   size \in NormalizeSizes, strategy \in Strategies, window \in PromptWindows}
    /\ cfg.max_merge_size # None => cfg.non_speech_strategy = "CREATE_SEGMENT"

Next == GetTranscribeTimestamps \/ Normalize \/ SkipShortSegment \/ RunWhisper \/ ReturnResult

Spec == Init /\ [][Next]_vars

\* transcribe() with no padding, no merging and no prompt window, with a
\* transcriber that only keeps its segments sorted by start
InitSorted ==
    /\ InitTranscribe
    /\ cfg \in {Config(None, None, None, None, strategy, None) : strategy \in Strategies}

NextSorted ==
    GetTranscribeTimestamps \/ Normalize \/ SkipShortSegment \/ RunWhisperSorted \/ ReturnResult

SpecSorted == InitSorted /\ [][NextSorted]_vars

\* what a detector that keeps no order may return: at most MaxDetected + 1
\* intervals, each with start <= end, in any order
UnorderedLists ==
    UNION {[1..n -> Intervals] : n \in 0..(MaxDetected + 1)}

\* transcribe() from the answer of such a detector on, with the right padding
\* and the merging off or on
InitAnyDetector ==
    /\ pc = "detected"
    /\ seconds_timestamps \in UnorderedLists
    /\ timestamps = <<>>
    /\ idx = 0
    /\ result = [text |-> <<>>, segments |-> <<>>, language |-> ""]
    /\ languageCounter = <<>>
    /\ prompt_window = <<>>
    /\ calls = <<>>
    /\ last = <<>>
    /\ fn = "none"
    /\ args = NoCall
    /\ input = <<>>
    /\ output = <<>>
    /\ input_after = <<>>
    /\ raised = ""
    /\ cfg \in {Config(None, pr, silent, None, strategy, None) :
                   pr \in {None, Some(2)}, silent \in {None, Some(0)},
                   strategy \in Strategies}

NextAnyDetector == Normalize \/ SkipShortSegment \/ RunWhisper \/ ReturnResult

SpecAnyDetector == InitAnyDetector /\ [][NextAnyDetector]_vars

-----------------------------------------------------------------------------
(* The detectors: get_transcribe_timestamps of VadPeriodicTranscription and *)
(* of VadSileroTranscription                                               *)

\* the 1 of "if (segment_duration >= 1)", in ticks
MinPeriodicDuration == 2

\* LongEnough that keeps every entry
LongEnoughAlways(segment_duration) == TRUE

\* "Minimum duration is 1 second"
LongEnough(segment_duration) == segment_duration >= MinPeriodicDuration

RECURSIVE PeriodicLoop(_, _, _, _)
\* the while loop of the periodic detector from start_timestamp on
PeriodicLoop(periodic_duration, audio_duration, start_timestamp, res) ==
    IF ~(start_timestamp < audio_duration) THEN res
    ELSE
      LET end_timestamp == Min(start_timestamp + periodic_duration, audio_duration)
          segment_duration == end_timestamp - start_timestamp
      IN PeriodicLoop(periodic_duration, audio_duration, end_timestamp,
                      IF LongEnough(segment_duration)
                      THEN Append(res, Interval(start_timestamp, end_timestamp))
                      ELSE res)

periodic_timestamps(periodic_duration, audio_duration) ==
    PeriodicLoop(periodic_duration, audio_duration, 0, <<>>)

\* 60 * 60 seconds, in ticks
VAD_MAX_PROCESSING_CHUNK == 7200

sampling_rate == 16000

\* factor = 1 / self.sampling_rate turns samples into seconds: that is two
\* ticks for every sampling_rate samples
SampleFactor == [num |-> 2, den |-> sampling_rate]

\* the sample at tick t
SampleAt(t) == (t * sampling_rate) \div 2

RECURSIVE SileroChunks(_, _, _, _)
\* the while loop of the Silero detector from chunk_start on, n being the
\* chunk's number and vad[n] what get_speech_timestamps returns for it: for
\* every chunk its start, its duration and the list added to the result
SileroChunks(audio_duration, vad, chunk_start, n) ==
    IF ~(chunk_start < audio_duration) THEN <<>>
    ELSE
      LET chunk_duration == Min(audio_duration - chunk_start, VAD_MAX_PROCESSING_CHUNK)
          sample_timestamps == vad[n]
          seconds == multiply_timestamps(sample_timestamps, SampleFactor)
          adjusted == adjust_timestamp(seconds, chunk_start,
                                       Some(chunk_start + chunk_duration))
      IN <<[chunk_start |-> chunk_start, chunk_duration |-> chunk_duration,
            adjusted |-> adjusted]>>
         \o SileroChunks(audio_duration, vad, chunk_start + chunk_duration, n + 1)

RECURSIVE Extended(_, _)
\* result.extend(adjusted), chunk after chunk
Extended(chunks, n) ==
    IF n > Len(chunks) THEN <<>> ELSE chunks[n].adjusted \o Extended(chunks, n + 1)

silero_timestamps(audio_duration, vad) ==
    Extended(SileroChunks(audio_duration, vad, 0, 1), 1)

-----------------------------------------------------------------------------
(* Calls of the detectors *)

\* at most MaxChunks chunks of audio
MaxChunks == 2

Periods == 1..MaxTime

\* audio of up to MaxChunks chunks: whole chunks and up to two ticks more
SileroDurations ==
    {c * VAD_MAX_PROCESSING_CHUNK + r : c \in 0..(MaxChunks - 1), r \in 0..2}

NumChunks(audio_duration) ==
    (audio_duration + VAD_MAX_PROCESSING_CHUNK - 1) \div VAD_MAX_PROCESSING_CHUNK

\* the chunk-local times get_speech_timestamps may report, in ticks: at the
\* ends of a short and of a whole chunk, and next to them
VadTimes == 0..3 \cup {VAD_MAX_PROCESSING_CHUNK - 1, VAD_MAX_PROCESSING_CHUNK,
                       VAD_MAX_PROCESSING_CHUNK + 1}

\* what get_speech_timestamps returns for a chunk, in samples: no speech, or
\* one stretch of speech
VadLists ==
    {<<>>} \cup {<<Interval(SampleAt(x.start), SampleAt(x.end))>> :
                    x \in {y \in [start : VadTimes, end : VadTimes] : y.start <= y.end}}

CallPeriodic ==
    /\ fn = "none"
    /\ \E periodic_duration \in Periods, audio_duration \in AudioDurations :
          /\ args' = [periodic_duration |-> periodic_duration,
                      audio_duration |-> audio_duration]
          /\ output' = periodic_timestamps(periodic_duration, audio_duration)
    /\ fn' = "periodic"
    /\ UNCHANGED <<input, input_after, raised, transcribeVars>>

CallSilero ==
    /\ fn = "none"
    /\ \E audio_duration \in SileroDurations :
          \E vad \in [1..NumChunks(audio_duration) -> VadLists] :
             /\ args' = [audio_duration |-> audio_duration, vad |-> vad,
                         chunks |-> SileroChunks(audio_duration, vad, 0, 1)]
             /\ output' = silero_timestamps(audio_duration, vad)
    /\ fn' = "silero"
    /\ UNCHANGED <<input, input_after, raised, transcribeVars>>

InitDetectors ==
    /\ InitIdle
    /\ fn = "none"
    /\ args = NoCall
    /\ input = <<>>
    /\ output = <<>>
    /\ input_after = <<>>
    /\ raised = ""

NextDetectors == CallPeriodic \/ CallSilero

SpecDetectors == InitDetectors /\ [][NextDetectors]_vars

-----------------------------------------------------------------------------
(* Properties of the normalized list (checked under SpecNormalize) *)

\* C1: for a well-formed detector output, whatever the paddings, the merge
\* parameters and the strategy, the list the loop of transcribe() iterates is
\* sorted by start and each entry ends at or before the start of the next.
C1_SortedNonOverlap ==
    pc = "loop" =>
        \A i \in 1..(Len(timestamps) - 1) :
            /\ timestamps[i].start <= timestamps[i + 1].start
            /\ timestamps[i].end <= timestamps[i + 1].start

\* three detected intervals were padded, two of them merged, and the merged
\* entry expanded over the gap that padding and merging left
C1_Witness ==
    /\ pc = "loop"
    /\ cfg.non_speech_strategy = "EXPAND_SEGMENT"
    /\ cfg.segment_padding_left # None
    /\ cfg.segment_padding_right = Some(2)
    /\ cfg.max_silent_period = Some(0)
    /\ Len(seconds_timestamps) = 3
    /\ Len(timestamps) = 2
    /\ timestamps[1].end > seconds_timestamps[2].end + 2
    /\ Get(timestamps[1], "expand_amount", 0) > 0

-----------------------------------------------------------------------------
(* Properties of the loop of transcribe() (checked under Spec) *)

\* C2 as stated: with max_prompt_window > 0, after the update that follows a
\* processed interval s, every element e of the prompt window has
\* e.end - e.expand_amount >= s.end - max_prompt_window.
C2_WindowBound ==
    (cfg.max_prompt_window # None /\ Val(cfg.max_prompt_window) > 0 /\ last # <<>>) =>
        \A i \in 1..Len(prompt_window) :
            prompt_window[i].end - Get(prompt_window[i], "expand_amount", 0)
                >= last[1].segment.end - Val(cfg.max_prompt_window)

\* C3: an interval shorter than MIN_SEGMENT_DURATION is stepped over without
\* an invocation of the transcriber and without a change of the result, the
\* language votes or the prompt window; no invocation ever is for a buffer
\* shorter than MIN_SEGMENT_DURATION.
C3_ShortSegmentsPruned ==
    [][/\ (/\ pc = "loop"
           /\ idx <= Len(timestamps)
           /\ timestamps[idx].end - timestamps[idx].start < MIN_SEGMENT_DURATION)
          => (/\ idx' = idx + 1
              /\ UNCHANGED <<calls, result, languageCounter, prompt_window>>)
       /\ \A k \in 1..Len(calls') : calls'[k].duration >= MIN_SEGMENT_DURATION]_vars

\* the loop has transcribed an interval and then stepped over one of half a
\* second
C3_Witness ==
    /\ pc = "loop"
    /\ idx = 3
    /\ timestamps[2].end - timestamps[2].start = 1
    /\ Len(calls) = 1
    /\ Len(result.segments) = 1

Votes(l) == Cardinality({k \in 1..Len(calls) : calls[k].language = l})

FirstVote(l) == CHOOSE k \in 1..Len(calls) :
                    calls[k].language = l /\ \A j \in 1..(k - 1) : calls[j].language # l

\* C8: the language of the result is the one most invocations returned and,
\* among several with that count, the one returned first.
C8_LanguageVote ==
    (pc = "done" /\ calls # <<>>) =>
        /\ Votes(result.language) > 0
        /\ \A l \in Languages \ {result.language} :
              \/ Votes(l) < Votes(result.language)
              \/ /\ Votes(l) = Votes(result.language)
                 /\ FirstVote(result.language) < FirstVote(l)

\* votes fr, en, en: the result is en, not the language voted first
C8_Witness ==
    /\ pc = "done"
    /\ Len(calls) = 3
    /\ calls[1].language = "fr"
    /\ calls[2].language = "en"
    /\ calls[3].language = "en"
    /\ result.language = "en"

\* C9: when the detector returns an empty list, the transcriber is never
\* invoked and transcribe() returns an empty text, no segments and the
\* language "", under every strategy.
C9_EmptyDetection ==
    (pc # "start" /\ seconds_timestamps = <<>>) =>
        /\ calls = <<>>
        /\ pc = "done" => result = [text |-> <<>>, segments |-> <<>>, language |-> ""]

\* transcribe() has returned for an audio without speech whose gaps were to
\* be filled
C9_Witness ==
    /\ pc = "done"
    /\ seconds_timestamps = <<>>
    /\ cfg.non_speech_strategy = "CREATE_SEGMENT"
    /\ result = [text |-> <<>>, segments |-> <<>>, language |-> ""]

\* C10 as stated: when the processed interval s has expand_amount > 0, every
\* rebased segment that ends after s.start + (dur - s.expand_amount) gets
\* expand_amount = end - (s.start + dur - s.expand_amount).
C10_ExpandAmountOfTail ==
    last # <<>> =>
        LET s == last[1].segment
            speech_end == s.start + (s.end - s.start) - Get(s, "expand_amount", 0)
        IN Get(s, "expand_amount", 0) > 0 =>
              \A i \in 1..Len(last[1].segments) :
                  LET seg == last[1].segments[i]
                  IN seg.end > speech_end =>
                        /\ "expand_amount" \in DOMAIN seg
                        /\ seg.expand_amount = seg.end - speech_end

\* the intervals the loop has passed that are not shorter than
\* MIN_SEGMENT_DURATION, in list order
Processed ==
    SelectSeq(SubSeq(timestamps, 1, idx - 1),
              LAMBDA s : s.end - s.start >= MIN_SEGMENT_DURATION)

\* the space-separated join of the texts of window, None for an empty window
JoinedTexts(window) ==
    IF window = <<>> THEN None ELSE Some([i \in 1..Len(window) |-> window[i].text])

\* C19: the transcriber is invoked once for each interval of at least
\* MIN_SEGMENT_DURATION, in list order; the prompt of invocation k is the join
\* of the texts left in the prompt window by the update after invocation
\* k - 1, None when that window is empty: None for the first invocation, and
\* for every invocation when max_prompt_window is unset or 0.
C19_PromptFromEarlierCalls ==
    pc \in {"loop", "done"} =>
        /\ Len(calls) = Len(Processed)
        /\ \A k \in 1..Len(calls) :
              /\ calls[k].start = Processed[k].start
              /\ calls[k].duration = Processed[k].end - Processed[k].start
              /\ calls[k].prompt = JoinedTexts(IF k = 1 THEN <<>> ELSE calls[k - 1].window)
              /\ (cfg.max_prompt_window = None \/ cfg.max_prompt_window = Some(0))
                    => calls[k].prompt = None
        /\ prompt_window = (IF calls = <<>> THEN <<>> ELSE calls[Len(calls)].window)

\* the third invocation got the text of the second as its prompt, the text of
\* the first having left the window
C19_Witness ==
    /\ pc = "done"
    /\ cfg.max_prompt_window = Some(2)
    /\ Len(calls) = 3
    /\ calls[1].prompt = None
    /\ calls[2].prompt = Some(<<<<1, 1>>>>)
    /\ calls[3].prompt = Some(<<<<2, 1>>>>)

-----------------------------------------------------------------------------
(* Properties of the result for a transcriber that sorts by start (checked *)
(* under SpecSorted)                                                       *)

\* C14: at every step of the loop and at return the segments of the result
\* are sorted by start, and a segment ends at or before the start of every
\* later segment that came from another interval.
C14_SegmentsSorted ==
    LET segs == result.segments
    IN /\ \A i \in 1..(Len(segs) - 1) : segs[i].start <= segs[i + 1].start
       /\ \A i \in 1..Len(segs) : \A j \in (i + 1)..Len(segs) :
              segs[i].text[1] # segs[j].text[1] => segs[i].end <= segs[j].start

\* a segment that fills a gap before the speech up to its end, and a
\* segment of the speech that begins where the speech begins
C14_Witness ==
    /\ pc = "done"
    /\ Len(calls) = 2
    /\ Len(result.segments) = 2
    /\ result.segments[1].text = <<1, 1>>
    /\ result.segments[2].text = <<2, 1>>
    /\ result.segments[1].start < result.segments[1].end
    /\ result.segments[1].end = result.segments[2].start

-----------------------------------------------------------------------------
(* Properties of the timestamp operations (checked under SpecAlgebra) *)

\* ts is not empty, starts at 0, ends at total and each entry ends where the
\* next one starts
CoversExactly(ts, total) ==
    /\ Len(ts) > 0
    /\ ts[1].start = 0
    /\ ts[Len(ts)].end = total
    /\ \A i \in 1..(Len(ts) - 1) : ts[i].end = ts[i + 1].start

\* C4 as stated: for every well-formed list and every total_duration,
\* expand_gaps and fill_gaps return a list that covers [0, total_duration]
\* exactly.
C4_CoversAlways ==
    (fn \in {"expand_gaps", "fill_gaps"} /\ args.total_duration # None)
        => CoversExactly(output, Val(args.total_duration))

\* C4 amended: for every non-empty well-formed list whose last end is at most
\* total_duration, expand_gaps and fill_gaps return a list that covers
\* [0, total_duration] exactly.
C4_CoversWhenInside ==
    (/\ fn \in {"expand_gaps", "fill_gaps"}
     /\ args.total_duration # None
     /\ Len(input) > 0
     /\ input[Len(input)].end <= Val(args.total_duration))
        => CoversExactly(output, Val(args.total_duration))

\* fill_gaps has covered an audio with a leading gap, an inner gap it kept as
\* an entry and a trailing gap
C4_Witness ==
    /\ fn = "fill_gaps"
    /\ args.total_duration # None
    /\ Len(input) = 2
    /\ input[1].start > 0
    /\ input[1].end < input[2].start
    /\ input[2].end < Val(args.total_duration)
    /\ Len(output) = 5
    /\ CoversExactly(output, Val(args.total_duration))

\* C5: every entry pad_timestamps returns starts at or after the end of the
\* previous raw entry (0 for the first) and ends at or before the start of the
\* next raw entry; [{5,6},{6.5,7}] padded by 2 s on both sides (in ticks:
\* [{10,12},{13,14}] by 4) gives [{3,6.5},{6.5,9}].
C5_PadWithinNeighbours ==
    /\ fn = "pad_timestamps" =>
          /\ Len(output) = Len(input)
          /\ \A i \in 1..Len(output) :
                /\ output[i].start >= (IF i > 1 THEN input[i - 1].end ELSE 0)
                /\ i < Len(output) => output[i].end <= input[i + 1].start
    /\ pad_timestamps(<<Interval(10, 12), Interval(13, 14)>>, Some(4), Some(4))
          = <<Interval(6, 13), Interval(13, 18)>>

\* both pads of an entry were cut short by its neighbours
C5_Witness ==
    /\ fn = "pad_timestamps"
    /\ args.padding_left = Some(3)
    /\ args.padding_right = Some(3)
    /\ Len(input) = 3
    /\ output[2].start = output[1].end
    /\ output[2].start > input[2].start - 3
    /\ output[2].end = input[3].start
    /\ output[2].end < input[2].end + 3

\* C6: merging the result of merge_timestamps again, with the same
\* parameters, returns that result.
C6_MergeIdempotent ==
    fn = "merge_timestamps again" => output = args.first_result

\* the first merge absorbed an entry and flushed another
C6_Witness ==
    /\ fn = "merge_timestamps again"
    /\ Len(input) = 3
    /\ Len(args.first_result) = 2
    /\ Len(output) = 2

\* the rule of C7 for absorbing nxt into the running entry cur
MergeRule(cur, nxt, a) ==
    LET distance == nxt.start - cur.end
        length == cur.end - cur.start
    IN \/ /\ distance <= Val(a.max_merge_gap)
          /\ (a.max_merge_size = None \/ length <= Val(a.max_merge_size))
       \/ /\ a.min_force_merge_gap # None
          /\ distance <= Val(a.min_force_merge_gap)
          /\ (a.max_force_merge_size = None \/ length <= Val(a.max_force_merge_size))

\* out is ts cut into runs after the positions of cuts: every run has become
\* one entry from the start of its first member to the end of its last, an
\* entry was absorbed into its run exactly when MergeRule held for the run so
\* far, and a run was flushed exactly when it did not
MergedAlong(ts, out, cuts, a) ==
    LET n == Len(ts)
        ends == cuts \cup {n}
        RunStart(k) == CHOOSE f \in 1..k :
                          /\ \A d \in f..(k - 1) : d \notin cuts
                          /\ (f = 1 \/ (f - 1) \in cuts)
        Running(k) == Interval(ts[RunStart(k)].start, ts[k].end)
        Rank(e) == Cardinality({x \in ends : x <= e})
    IN /\ \A k \in 1..(n - 1) : MergeRule(Running(k), ts[k + 1], a) <=> k \notin cuts
       /\ Len(out) = Cardinality(ends)
       /\ \A e \in ends : out[Rank(e)] = Running(e)

\* C7: with max_merge_gap set, merge_timestamps absorbs the next entry into
\* the running entry exactly when the regular or the force condition holds of
\* the distance and the running entry's length, flushes otherwise and flushes
\* the last running entry; the documented example, in tenths of a second.
C7_MergeRule ==
    /\ (fn = "merge_timestamps" /\ args.max_merge_gap # None) =>
          IF input = <<>> THEN output = <<>>
          ELSE \E cuts \in SUBSET (1..(Len(input) - 1)) : MergedAlong(input, output, cuts, args)
    /\ merge_timestamps(<<Interval(0, 100), Interval(103, 120), Interval(124, 130)>>,
                        Some(1), Some(50), Some(5), Some(75))
          = <<Interval(0, 100), Interval(103, 130)>>

\* the first entry was too long to absorb its neighbour and the second was
\* force-merged with the third over a distance above max_merge_gap
C7_Witness ==
    /\ fn = "merge_timestamps"
    /\ args.max_merge_gap = Some(0)
    /\ Len(input) = 3
    /\ input[2].start - input[1].end = 1
    /\ input[3].start - input[2].end = 1
    /\ output = <<input[1], Interval(input[2].start, input[3].end)>>

Shifted(ts, by) ==
    [i \in 1..Len(ts) |-> Put(Put(ts[i], "start", ts[i].start + by), "end", ts[i].end + by)]

\* C11 as stated: without max_source_time, adjust_timestamp returns the list
\* with every start and end moved by the offset, so that adjusting by a and
\* then by b returns what adjusting by a + b returns.
C11_AdjustLinear ==
    (fn \in {"adjust_timestamp", "adjust_timestamp again"} /\ args.max_source_time = None) =>
        /\ raised = ""
        /\ fn = "adjust_timestamp" => output = Shifted(input, args.adjust_seconds)
        /\ fn = "adjust_timestamp again" =>
              output = Shifted(input, args.adjust_seconds + args.second_adjust_seconds)

\* C12 as stated: after a call of a timestamp operation the list passed in
\* has the entries, and every entry the fields and values, it had before.
C12_InputNotMutated ==
    fn # "none" => input_after = input

\* C17 as stated: every timestamp operation returns an empty list, and raises
\* nothing, when the list passed in is empty, whatever its other parameters.
C17_EmptyListTotal ==
    (fn # "none" /\ input = <<>>) => (raised = "" /\ output = <<>>)

\* C15 as stated: fill_gaps treats the gap before the first interval as it
\* treats the gap after the last: with max_expand_size set and the gap at
\* most max_expand_size, the neighbouring interval absorbs it and no gap
\* entry stands for it; otherwise a gap entry is inserted.
C15_GapsSymmetric ==
    (fn = "fill_gaps" /\ Len(input) > 0 /\ args.total_duration # None) =>
        LET size == args.max_expand_size
            leading == input[1].start
            trailing == Val(args.total_duration) - input[Len(input)].end
            first == output[1]
            final == output[Len(output)]
        IN /\ leading > 0 =>
                 IF size # None /\ leading <= Val(size)
                 THEN "gap" \notin DOMAIN first /\ first.start = 0
                 ELSE first = Gap(0, leading)
           /\ trailing > 0 =>
                 IF size # None /\ trailing <= Val(size)
                 THEN "gap" \notin DOMAIN final /\ final.end = Val(args.total_duration)
                 ELSE final = Gap(input[Len(input)].end, Val(args.total_duration))

-----------------------------------------------------------------------------
(* Properties of transcribe() for any detector (checked under SpecAnyDetector) *)

\* C13 as stated: whatever order the detector returns its intervals in, the
\* list the loop of transcribe() iterates is sorted by start and no entry
\* overlaps the next.
C13_NormalizedForAnyDetector ==
    pc \in {"loop", "done"} =>
        \A i \in 1..(Len(timestamps) - 1) :
            /\ timestamps[i].start <= timestamps[i + 1].start
            /\ timestamps[i].end <= timestamps[i + 1].start

\* C16 as stated: transcribe() returns no result when the normalized list
\* holds an interval with start > end.
C16_FailFast ==
    pc = "done" => \A i \in 1..Len(timestamps) : timestamps[i].start <= timestamps[i].end

-----------------------------------------------------------------------------
(* Properties of the detectors (checked under SpecDetectors) *)

\* the entry of the periodic detector for k
PeriodicEntry(k, period, duration) ==
    Interval(k * period, Min((k + 1) * period, duration))

\* the number of k >= 0 with k * period < duration
PeriodicCount(period, duration) == (duration + period - 1) \div period

\* the entries for every k with k * period < duration, in increasing k
PeriodicEntries(period, duration) ==
    [i \in 1..PeriodicCount(period, duration) |-> PeriodicEntry(i - 1, period, duration)]

\* C18 as stated: the periodic detector returns the entry of every k with
\* k * period < duration, in increasing k, leaving out the last one only, and
\* only if it is shorter than 1 second.
C18_OnlyFinalOmitted ==
    fn = "periodic" =>
        LET all == PeriodicEntries(args.periodic_duration, args.audio_duration)
            final == all[Len(all)]
        IN output = IF all # <<>> /\ final.end - final.start < MinPeriodicDuration
                    THEN SubSeq(all, 1, Len(all) - 1)
                    ELSE all

\* C18 amended: the periodic detector returns the entry of every k with
\* k * period < duration, in increasing k, leaving out every entry that is
\* shorter than 1 second.
C18_ShortOmitted ==
    fn = "periodic" =>
        output = SelectSeq(PeriodicEntries(args.periodic_duration, args.audio_duration),
                           LAMBDA entry : entry.end - entry.start >= MinPeriodicDuration)

\* a period of 1 s over 2.5 s of audio: two whole entries, and the last
\* half second left out
C18_Witness ==
    /\ fn = "periodic"
    /\ args.periodic_duration = 2
    /\ args.audio_duration = 5
    /\ output = <<Interval(0, 2), Interval(2, 4)>>

\* C20 as stated: every interval the Silero detector adds for a chunk lies
\* inside the chunk, whatever the external detector reports for it; the
\* chunks follow each other from 0 to the audio's duration and none is
\* longer than VAD_MAX_PROCESSING_CHUNK.
C20_InsideChunk ==
    fn = "silero" =>
        LET chunks == args.chunks
        IN /\ \A n \in 1..Len(chunks) : \A i \in 1..Len(chunks[n].adjusted) :
                  LET entry == chunks[n].adjusted[i]
                  IN /\ chunks[n].chunk_start <= entry.start
                     /\ entry.start <= entry.end
                     /\ entry.end <= chunks[n].chunk_start + chunks[n].chunk_duration
           /\ \A n \in 1..Len(chunks) :
                  /\ chunks[n].chunk_duration > 0
                  /\ chunks[n].chunk_duration <= VAD_MAX_PROCESSING_CHUNK
                  /\ chunks[n].chunk_start =
                        (IF n = 1 THEN 0
                         ELSE chunks[n - 1].chunk_start + chunks[n - 1].chunk_duration)
           /\ args.audio_duration =
                 (IF chunks = <<>> THEN 0
                  ELSE chunks[Len(chunks)].chunk_start + chunks[Len(chunks)].chunk_duration)

=============================================================================
